---- MODULE Spec2Model ----
(***************************************************************************)
(* preto: a tokenizer (lexer) goroutine and a translator (parser) joined   *)
(* by an unbuffered channel of items.  Text is modelled as sequences of    *)
(* one-character strings, so that every conversion is computed character   *)
(* by character as the Go code computes it.                                *)
(***************************************************************************)
EXTENDS Integers, Sequences, FiniteSets, TLC

(* ------------------------------ runes --------------------------------- *)

\* rune(0): what lexer.read returns once the reader is at end of input
NUL == "NUL"

Letters ==
  {"a","b","c","d","e","f","g","h","i","j","k","l","m","n","o","p","q","r",
   "s","t","u","v","w","x","y","z","A","B","C","D","E","F","G","H","I","J",
   "K","L","M","N","O","P","Q","R","S","T","U","V","W","X","Y","Z","_"}

Digits == {"0","1","2","3","4","5","6","7","8","9"}

SpaceTab == {" ", "\t"}

Runes == Letters \cup Digits \cup SpaceTab
           \cup {"\n", "#", "[", "]", "(", ")", "\"", ".", "=", ",", NUL}

isLetter(ch) == ch \in Letters

isNumber(ch) == ch \in Digits

\* the rune classes the read* helpers hand to readFunc
AlphanumRunes == Letters \cup Digits \cup {"_", "."}
FieldTypeRunes == Letters \cup Digits \cup {"_", "[", "]"}
OptionRunes == Letters \cup Digits \cup {"_", "(", ")"}
StrBodyRunes == Runes \ {"\"", "\n"}
\* a reader of field options that stops at the first rune that is not
\* alphanumeric
FieldOptionRunesAlnum == AlphanumRunes \ {"\n"}

FieldOptionRunes == Runes \ {"]", "\n"}

(* ------------------------------ items --------------------------------- *)

Item(t, s) == [t |-> t, s |-> s]

\* the zero value item{}: what a receive on the closed channel returns
ZeroItem == Item("itemUnknown", <<>>)

\* an empty slot: a nil p.head, no sender blocked on the channel
NoItem == Item("none", <<>>)

\* make(chan item): the channel's buffer capacity
ChanCapBuffered == 0 + 1
ChanCap == 0

indentSpace == <<" "," ">>

(* ------------------------------ input --------------------------------- *)

MaxLines == 4

\* lines a document is made of, each with its newline
Vocabulary ==
  { <<"\n">>,
    <<"#"," ","c","\n">>,
    <<"p","a","c","k","a","g","e"," ","e","x","a","m","p","l","e","\n">>,
    <<"o","p","t","i","o","n"," ","o"," ","\"","v","\"","\n">>,
    <<"m","s","g"," ","M","y","M","e","s","s","a","g","e","\n">>,
    <<"e","n","u","m"," ","E","\n">>,
    <<" "," ","f","o","o"," ","s","t","r"," ","1","\n">>,
    <<" "," ","f","o","o"," ","s","t","r","\n">>,
    <<" "," ","b"," ","i","n","t"," ","2"," ","[","d","]","\n">>,
    <<" "," ","#"," "," ","c","\n">>,
    <<" "," ","m","s","g"," ","B","\n">>,
    <<" ","x"," ","m","a","p","[","s","t","r","]","i","n","t"," ","4","\n">>,
    <<" "," "," ","y"," ","[","]","i","n","t"," ","3"," ","#"," ","c","\n">>,
    <<" "," ","e","n","u","m"," ","E","\n">>,
    <<" "," ","K"," ","1","\n">>,
    <<" "," ","o","n","e","o","f"," ","o","\n">>,
    <<"[","d","]","\n">> }

\* last lines of a file that does not end with a newline
Tails ==
  { <<"o","p","t","i","o","n"," ","o"," ","\"","v">>,
    <<" "," ","b"," ","i","n","t"," ","2"," ","[","d">>,
    <<" "," ","f","o","o"," ","s","t","r"," ","1">> }

RoundTripDoc ==
  << <<"p","a","c","k","a","g","e"," ","e","x","a","m","p","l","e","\n">>,
     <<"m","s","g"," ","M","y","M","e","s","s","a","g","e","\n">>,
     <<" "," ","f","o","o"," ","s","t","r"," ","1","\n">>,
     <<" "," ","b","a","r"," ","[","]","i","n","t"," ","3","\n">> >>

\* the example of the README
ReadmeDoc ==
  << <<"p","a","c","k","a","g","e"," ","e","x","a","m","p","l","e","\n">>,
     <<"\n">>,
     <<"o","p","t","i","o","n"," ","j","a","v","a","_","p","a","c","k","a","g","e"," ","\"","j","a","v","a","_","p","k","g","_","n","a","m","e","\"","\n">>,
     <<"\n">>,
     <<"m","s","g"," ","M","y","M","e","s","s","a","g","e","\n">>,
     <<" "," ","f","o","o"," ","s","t","r"," ","1","\n">>,
     <<" "," ","b","a","r"," ","i","n","t"," ","2"," "," "," "," "," "," ","[","d","e","p","r","e","c","a","t","e","d","]","\n">>,
     <<" "," ","c","o","m","p","l","e","x"," ","i","n","t"," ","9","9"," ","[","f","o","o","_","o","p","t","i","o","n","s",".","o","p","t","1","=","1","2","3",",","f","o","o","_","o","p","t","i","o","n","s",".","o","p","t","2","=","\"","b","a","z","\"","]","\n">>,
     <<"\n">>,
     <<" "," ","#"," ","I"," ","a","m"," ","a"," ","c","o","m","m","e","n","t","\n">>,
     <<" "," ","b","o","b"," ","b","y","t","e","s"," ","8","\n">>,
     <<" "," ","f","o","o"," ","m","a","p","[","s","t","r","]","i","n","t"," ","4","\n">>,
     <<" "," ","b","a","r"," ","[","]","i","n","t"," ","3","\n">>,
     <<"\n">>,
     <<" "," ","#"," ","w","h","o","a"," ","I"," ","a","m"," ","n","e","s","t","e","d"," ","m","e","s","s","a","g","e","\n">>,
     <<" "," ","m","s","g"," ","N","e","s","t","e","d","M","e","s","s","a","g","e","\n">>,
     <<" "," "," "," ","s","t","r"," ","s","o","u","n","d"," ","1","\n">>,
     <<"\n">>,
     <<" "," ","e","n","u","m"," ","T","h","e","E","n","u","m","\n">>,
     <<" "," "," "," ","O","N","E"," ","1","\n">>,
     <<" "," "," "," ","T","H","R","E","E"," ","3","\n">>,
     <<" "," "," "," ","T","W","O"," ","2","\n">>,
     <<"\n">>,
     <<" "," ","o","n","e","o","f"," ","s","o","m","e","t","h","i","n","g","\n">>,
     <<" "," "," "," ","f","i","r","s","t","_","t","h","i","n","g"," "," "," "," "," ","s","t","r"," ","1","\n">>,
     <<" "," "," "," ","o","r","_","s","e","c","o","n","d","_","t","h","i","n","g"," ","s","t","r"," ","3","\n">> >>

MaxOptLen == 2

\* texts of a bracketed field option, closed on its line
OptRunes == {"d", " ", "[", "=", "#"}
OptTexts == UNION { [1..k -> OptRunes] : k \in 0..MaxOptLen }

OptionDocs ==
  { << <<"m","s","g"," ","M","y","M","e","s","s","a","g","e","\n">>, <<" "," ","b"," ","i","n","t"," ","2"," ","[">> \o o \o <<"]","\n">> >> : o \in OptTexts }

ScenarioDocs == {RoundTripDoc, ReadmeDoc} \cup OptionDocs

MaxTypeParts == 3

\* field type lexemes: what readFieldType can return, built from these parts
TypeParts == { <<"m","a","p","[">>, <<"[","]">>, <<"]">>, <<"s","t","r">>, <<"i","n","t">>, <<"x">> }

RECURSIVE Flatten(_)
Flatten(ss) == IF ss = <<>> THEN <<>> ELSE Head(ss) \o Flatten(Tail(ss))

TypeLexemes ==
  { Flatten(ps) : ps \in UNION { [1..k -> TypeParts] : k \in 0..MaxTypeParts } }

(* ------------------------------ state --------------------------------- *)

VARIABLES
  lines,      \* the lines of the input file the reader has been given so far
  eof,        \* no further input follows
  col,        \* the reader's position in the last line given
  lstate,     \* lexer.lex: the scanFn to run next
  sending,    \* the item the lexer is blocked sending in l.c <- item
  buf,        \* the channel's buffer (empty for an unbuffered channel)
  chanClosed, \* close(l.c) has run
  emitted,    \* history: the items lexer.emit was called with, in order
  head,       \* parser.head, the lookahead slot
  stack,      \* the parser's call stack, innermost call last
  out,        \* the chunks written to parser.w, one per Write call
  line,       \* parser.line
  consumed,   \* history: the items the parser took, in the order it took them
  proc,       \* the process: running, exited or panicked
  fault,      \* the panic message
  conv        \* a call of convertType on its own: argument and result

lexVars == <<lines, eof, col, lstate>>
parVars == <<head, stack, out, line, consumed>>
procVars == <<proc, fault>>
vars == <<lines, eof, col, lstate, sending, buf, chanClosed, emitted,
          head, stack, out, line, consumed, proc, fault, conv>>

Last(s) == s[Len(s)]
Front(s) == SubSeq(s, 1, Len(s) - 1)

\* the line the reader is in
Cur == IF lines = <<>> THEN <<>> ELSE Last(lines)

AtEnd == col > Len(Cur)

(* ------------------------------ reader -------------------------------- *)

\* lexer.read at position c of line ln; at end of input it returns rune(0),
\* and the unread that follows a failed ReadRune leaves the position alone
read(ln, c) == IF c <= Len(ln) THEN ln[c] ELSE NUL

\* the loop of readFunc and readWhitespace: the first position at or after c
\* whose rune is not in ok
RECURSIVE RunEnd(_, _, _)
RunEnd(ln, c, ok) ==
  IF c <= Len(ln) /\ ln[c] \in ok THEN RunEnd(ln, c + 1, ok) ELSE c

\* readFunc never returns when ok accepts rune(0) and the input ends first
Spins(ln, c, ok) == NUL \in ok /\ RunEnd(ln, c, ok) > Len(ln)

readWhitespace(ln, c) ==
  LET e == RunEnd(ln, c, SpaceTab) IN [s |-> SubSeq(ln, c, e - 1), col |-> e]

\* the runes accepted, then the whitespace after them is skipped
readFunc(ln, c, ok) ==
  LET e == RunEnd(ln, c, ok)
  IN  [s |-> SubSeq(ln, c, e - 1), col |-> readWhitespace(ln, e).col]

readNum(ln, c) == readFunc(ln, c, Digits)

readAlphanum(ln, c) == readFunc(ln, c, AlphanumRunes)

readFieldType(ln, c) == readFunc(ln, c, FieldTypeRunes)

readOption(ln, c) == readFunc(ln, c, OptionRunes)

\* readStr: [s, col] of the quoted string, or the panic it raises
readStr(ln, c) ==
  IF read(ln, c) # "\""
  THEN [panic |-> "string missing opening quote"]
  ELSE LET body == readFunc(ln, c + 1, StrBodyRunes)
       IN  IF Spins(ln, c + 1, StrBodyRunes)
           THEN [spin |-> TRUE]
           ELSE IF read(ln, body.col) # "\""
           THEN [panic |-> "string missing end quote"]
           ELSE [s |-> <<"\"">> \o body.s \o <<"\"">>, col |-> body.col + 1]

(* ------------------------------ channel ------------------------------- *)

\* lexer.emit: l.c <- item{t, s}.  The send completes at once while the
\* buffer has room; otherwise the lexer stays blocked in it until a receive.
emit(tok) ==
  /\ emitted' = Append(emitted, tok)
  /\ IF Len(buf) < ChanCap
     THEN buf' = Append(buf, tok) /\ sending' = sending
     ELSE sending' = tok /\ buf' = buf

\* a receive <-p.c can proceed
ChanReady == buf # <<>> \/ sending # NoItem \/ chanClosed

\* the item a receive returns: the zero item once the channel is closed
ChanTok ==
  IF buf # <<>> THEN Head(buf)
  ELSE IF sending # NoItem THEN sending
  ELSE ZeroItem

\* the effect of a receive on the channel: a blocked sender is released
ChanRecv ==
  IF buf # <<>>
  THEN /\ buf' = (IF sending # NoItem
                  THEN Append(Tail(buf), sending) ELSE Tail(buf))
       /\ sending' = NoItem
  ELSE sending' = NoItem /\ buf' = buf

(* ------------------------------- lexer -------------------------------- *)

\* the lexer goroutine is about to run scan function st
LexerAt(sts) ==
  /\ proc = "running"
  /\ lstate \in sts
  /\ sending = NoItem

\* the scan function moves the reader to c, emits tok and returns st
LexEmit(c, st, tok) ==
  /\ col' = c
  /\ lstate' = st
  /\ emit(tok)
  /\ UNCHANGED <<lines, eof, chanClosed, procVars>>

\* the scan function moves the reader to c and returns st
LexGo(c, st) ==
  /\ col' = c
  /\ lstate' = st
  /\ UNCHANGED <<lines, eof, sending, buf, chanClosed, emitted, procVars>>

\* a panic ends the process
LexPanic(msg) ==
  /\ proc' = "panicked"
  /\ fault' = msg
  /\ UNCHANGED <<lexVars, sending, buf, chanClosed, emitted>>

\* the reader hands the lexer the next line of the file, or its end
NextLines ==
  (IF Len(lines) < MaxLines THEN Vocabulary \cup Tails ELSE {})
  \cup { d[Len(lines) + 1] :
           d \in { e \in ScenarioDocs :
                     /\ Len(e) > Len(lines)
                     /\ SubSeq(e, 1, Len(lines)) = lines } }

Feed ==
  /\ proc = "running"
  /\ lstate = "scanText"
  /\ sending = NoItem
  /\ AtEnd
  /\ ~eof
  /\ \E l \in NextLines \cup {<<>>} :
       IF l = <<>>
       THEN eof' = TRUE /\ UNCHANGED <<lines, col>>
       ELSE /\ lines' = Append(lines, l)
            /\ col' = 1
            /\ eof' = (Last(l) # "\n")
  /\ UNCHANGED <<lstate, sending, buf, chanClosed, emitted, parVars,
                 procVars, conv>>

scanText ==
  /\ LexerAt({"scanText"})
  /\ ~AtEnd \/ eof
  /\ LET ch == read(Cur, col) IN
       IF ch = "\n" THEN LexEmit(col + 1, "scanText", Item("itemNewline", <<>>))
       ELSE IF ch \in SpaceTab \/ isLetter(ch) THEN LexGo(col, "scanIndent")
       ELSE IF ch = NUL THEN LexGo(col, "nil")
       ELSE IF ch = "#" THEN LexGo(col, "scanComment")
       ELSE LexGo(col + 1, "nil")
  /\ UNCHANGED <<parVars, conv>>

\* bufio.Reader.ReadLine: the rest of the line without its newline
scanComment ==
  /\ LexerAt({"scanComment", "scanComment2"})
  /\ IF lstate = "scanComment"
     THEN LET e == RunEnd(Cur, col, Runes \ {"\n"}) IN
            IF AtEnd THEN LexPanic("EOF")
            ELSE LexEmit(IF e <= Len(Cur) THEN e + 1 ELSE e, "scanComment2",
                         Item("itemCommentStart", SubSeq(Cur, col, e - 1)))
     ELSE LexEmit(col, "scanText", Item("itemNewline", <<>>))
  /\ UNCHANGED <<parVars, conv>>

\* a scanIndent in which the enum keyword sets no item type
scanIndentRestNoEnum(c) ==
  LET x == readAlphanum(Cur, c)
      y == readAlphanum(Cur, x.col)
  IN  IF read(Cur, c) = "#" THEN LexGo(c, "scanEnd")
      ELSE IF x.s = <<"o","p","t","i","o","n">> THEN LexGo(x.col, "scanFileOption")
      ELSE IF x.s = <<"m","s","g">>
      THEN LexEmit(y.col, "scanEnd", Item("itemMessageType", y.s))
      ELSE IF x.s = <<"p","a","c","k","a","g","e">>
      THEN LexEmit(y.col, "scanEnd", Item("itemPackage", y.s))
      ELSE IF x.s = <<"e","n","u","m">>
      THEN LexEmit(y.col, "scanEnd", Item("itemUnknown", y.s))
      ELSE IF x.s = <<"o","n","e","o","f">>
      THEN LexEmit(y.col, "scanEnd", Item("itemOneof", y.s))
      ELSE LexEmit(readWhitespace(Cur, x.col).col, "scanField",
                   Item("itemIdentifier", x.s))

\* scanIndent after the leading whitespace: position c
scanIndentRest(c) ==
  LET x == readAlphanum(Cur, c)
      y == readAlphanum(Cur, x.col)
  IN  IF read(Cur, c) = "#" THEN LexGo(c, "scanEnd")
      ELSE IF x.s = <<"o","p","t","i","o","n">> THEN LexGo(x.col, "scanFileOption")
      ELSE IF x.s = <<"m","s","g">>
      THEN LexEmit(y.col, "scanEnd", Item("itemMessageType", y.s))
      ELSE IF x.s = <<"p","a","c","k","a","g","e">>
      THEN LexEmit(y.col, "scanEnd", Item("itemPackage", y.s))
      ELSE IF x.s = <<"e","n","u","m">>
      THEN LexEmit(y.col, "scanEnd", Item("itemEnum", y.s))
      ELSE IF x.s = <<"o","n","e","o","f">>
      THEN LexEmit(y.col, "scanEnd", Item("itemOneof", y.s))
      ELSE LexEmit(readWhitespace(Cur, x.col).col, "scanField",
                   Item("itemIdentifier", x.s))

scanIndent ==
  /\ LexerAt({"scanIndent", "scanIndent2"})
  /\ LET ws == readWhitespace(Cur, col) IN
       IF lstate = "scanIndent" /\ Len(ws.s) > 0
       THEN LexEmit(ws.col, "scanIndent2", Item("itemWhitespace", ws.s))
       ELSE scanIndentRest(col)
  /\ UNCHANGED <<parVars, conv>>

scanFileOption ==
  /\ LexerAt({"scanFileOption", "scanFileOption2"})
  /\ IF lstate = "scanFileOption"
     THEN LET o == readOption(Cur, col)
          IN  LexEmit(o.col, "scanFileOption2", Item("itemOption", o.s))
     ELSE LET s == readStr(Cur, readWhitespace(Cur, col).col) IN
            IF "panic" \in DOMAIN s THEN LexPanic(s.panic)
            ELSE IF "spin" \in DOMAIN s THEN LexGo(col, "spin")
            ELSE LexEmit(s.col, "scanEnd", Item("itemOptionName", s.s))
  /\ UNCHANGED <<parVars, conv>>

scanField ==
  /\ LexerAt({"scanField"})
  /\ IF isNumber(read(Cur, col))
     THEN LexGo(col, "scanFieldNum")
     ELSE LexGo(col, "scanFieldType")
  /\ UNCHANGED <<parVars, conv>>

scanFieldType ==
  /\ LexerAt({"scanFieldType"})
  /\ LET t == readFieldType(Cur, col)
     IN  LexEmit(t.col, "scanFieldNum", Item("itemFieldType", t.s))
  /\ UNCHANGED <<parVars, conv>>

scanFieldNum ==
  /\ LexerAt({"scanFieldNum"})
  /\ LET n == readNum(Cur, col)
     IN  LexEmit(n.col, "scanFieldEnd", Item("itemFieldNum", n.s))
  /\ UNCHANGED <<parVars, conv>>

scanFieldEnd ==
  /\ LexerAt({"scanFieldEnd"})
  /\ LET c == readWhitespace(Cur, col).col IN
       IF read(Cur, c) = "[" 
       THEN LexGo(c, "scanFieldOptions")
       ELSE LexGo(c, "scanEnd")
  /\ UNCHANGED <<parVars, conv>>

scanFieldOptions ==
  /\ LexerAt({"scanFieldOptions", "scanFieldOptions2"})
  /\ IF lstate = "scanFieldOptions"
     THEN IF read(Cur, col) # "["
          THEN LexPanic("expecting opening [ for option but got")
          ELSE IF Spins(Cur, col + 1, FieldOptionRunes)
          THEN LexGo(col, "spin")
          ELSE LET s == readFunc(Cur, col + 1, FieldOptionRunes)
               IN  LexEmit(s.col, "scanFieldOptions2",
                           Item("itemFieldOption", s.s))
     ELSE IF read(Cur, col) # "]"
          THEN LexPanic("expecting opening ] for option")
          ELSE LexGo(col + 1, "scanEnd")
  /\ UNCHANGED <<parVars, conv>>

scanEnd ==
  /\ LexerAt({"scanEnd"})
  /\ LET c == readWhitespace(Cur, col).col
         ch == read(Cur, c)
     IN  IF ch = "#" THEN LexGo(c, "scanComment")
         ELSE IF ch = "\n"
         THEN LexEmit(c + 1, "scanText", Item("itemNewline", <<>>))
         ELSE LexPanic("unexpected line end")
  /\ UNCHANGED <<parVars, conv>>

\* lexer.lex: the loop has ended on a nil scanFn; the channel is closed
lex ==
  /\ proc = "running"
  /\ lstate = "nil"
  /\ lstate' = "done"
  /\ chanClosed' = TRUE
  /\ UNCHANGED <<lines, eof, col, sending, buf, emitted, parVars, procVars,
                 conv>>

(* ---------------------------- conversions ----------------------------- *)

toProtoType(t) == IF t = <<"s","t","r">> THEN <<"s","t","r","i","n","g">> ELSE t

\* strings.HasPrefix
HasPrefix(s, p) == Len(s) >= Len(p) /\ SubSeq(s, 1, Len(p)) = p

\* strings.Index(s, "]"): the 0-based index of the first "]", or -1
IndexBracket(s) ==
  IF \E k \in 1..Len(s) : s[k] = "]"
  THEN (CHOOSE k \in 1..Len(s) :
          s[k] = "]" /\ \A m \in 1..(k - 1) : s[m] # "]") - 1
  ELSE -1

\* convertType slices s[4:i] with i = -1 when a map type has no "]":
\* slice bounds out of range
convertTypePanics(s) == HasPrefix(s, <<"m","a","p","[">>) /\ IndexBracket(s) < 4

convertType(s) ==
  IF HasPrefix(s, <<"m","a","p","[">>)
  THEN LET i == IndexBracket(s)
       IN  <<"m","a","p","<">> \o toProtoType(SubSeq(s, 5, i)) \o <<","," ">>
             \o toProtoType(SubSeq(s, i + 2, Len(s))) \o <<">">>
  ELSE IF HasPrefix(s, <<"[","]">>)
  THEN <<"r","e","p","e","a","t","e","d"," ">> \o toProtoType(SubSeq(s, 3, Len(s)))
  ELSE <<"o","p","t","i","o","n","a","l"," ">> \o toProtoType(s)

\* strings.TrimLeft(s, "# ")
RECURSIVE TrimLeft(_)
TrimLeft(s) ==
  IF s # <<>> /\ Head(s) \in {"#", " "} THEN TrimLeft(Tail(s)) ELSE s

\* strings.Repeat
RECURSIVE Repeat(_, _)
Repeat(s, n) == IF n <= 0 THEN <<>> ELSE s \o Repeat(s, n - 1)

(* ------------------------------- parser ------------------------------- *)

\* one call of a parser method: where it is (pc), its lvl argument, its
\* messageLevel, and the items it holds in locals
Frame(pc, lvl) ==
  [pc |-> pc, lvl |-> lvl, messageLevel |-> 0,
   ident |-> NoItem, fieldType |-> NoItem, fieldNum |-> NoItem]

Top == Last(stack)

\* the running method moves to pc
Goto(pc) == [stack EXCEPT ![Len(stack)].pc = pc]

\* the running method returns
Return == Front(stack)

\* the running method moves to pc and calls f
Call(pc, f) == Append(Goto(pc), f)

\* the running method ends by calling f (its own return follows f's)
TailCall(f) == Append(Front(stack), f)

\* parser.write: one Write call
write(lvl, s) == Append(out, Repeat(indentSpace, lvl) \o s)

NL == <<"\n">>

\* the parser goroutine is in the method position pc
ParserAt(pcs) ==
  /\ proc = "running"
  /\ stack # <<>>
  /\ Top.pc \in pcs

\* parser.next can return: the lookahead slot is full or a receive can proceed
CanNext == head # NoItem \/ ChanReady

\* the item parser.next and parser.peek return
NextTok == IF head # NoItem THEN head ELSE ChanTok

\* a next that receives from the channel even when the lookahead slot is full
RecvAlways == ChanRecv

\* the receive inside parser.next, made only when the lookahead slot is empty
Recv == IF head = NoItem THEN ChanRecv ELSE UNCHANGED <<sending, buf>>

\* the items among toks that the lexer produced (a receive on the closed
\* channel produces none)
Taken(toks) == SelectSeq(toks, LAMBDA t : t.t # "itemUnknown")

\* the parser step ends with lookahead h, call stack st, output o, line
\* count ln, having taken toks
ParGo(h, st, o, ln, toks) ==
  /\ head' = h
  /\ stack' = st
  /\ out' = o
  /\ line' = ln
  /\ consumed' = consumed \o Taken(toks)
  /\ UNCHANGED procVars

\* the parser panics after taking toks, leaving lookahead h
ParPanic(msg, h, toks) ==
  /\ proc' = "panicked"
  /\ fault' = msg
  /\ head' = h
  /\ consumed' = consumed \o Taken(toks)
  /\ UNCHANGED <<stack, out, line>>

\* toplevel parse: one iteration of its loop up to the first call or receive
parse ==
  /\ ParserAt({"parse"})
  /\ CanNext
  /\ Recv
  /\ LET i == NextTok IN
       IF i.t = "itemUnknown" THEN ParGo(i, Return, out, line, <<>>)
       ELSE IF i.t = "itemNewline"
       THEN ParGo(NoItem, stack, write(0, NL), line + 1, <<i>>)
       ELSE IF i.t = "itemWhitespace"
       THEN ParGo(i, Call("parse", Frame("parseNewline", 0)), out, line, <<>>)
       ELSE IF i.t = "itemPackage"
       THEN ParGo(NoItem, stack,
                  write(0, <<"p","a","c","k","a","g","e"," ">> \o i.s \o <<";">>), line, <<i>>)
       ELSE IF i.t = "itemOption"
       THEN ParGo(i, Goto("parseOption"), out, line, <<>>)
       ELSE IF i.t = "itemMessageType"
       THEN ParGo(i, Call("parse", Frame("parseMessage", 0)), out, line, <<>>)
       ELSE ParGo(i, stack, out, line, <<>>)
  /\ UNCHANGED <<lexVars, chanClosed, emitted, conv>>

\* parse, case itemOption: j := <-p.c, past the lookahead slot
parseOption ==
  /\ ParserAt({"parseOption"})
  /\ ChanReady
  /\ ChanRecv
  /\ LET j == ChanTok IN
       IF j.t # "itemOptionName"
       THEN ParPanic("parser: expected option value", head, <<j>>)
       ELSE ParGo(NoItem, Goto("parse"),
                  write(0, <<"o","p","t","i","o","n"," ">> \o head.s \o <<" ","="," ">> \o j.s \o <<";">>),
                  line, <<j, head>>)
  /\ UNCHANGED <<lexVars, chanClosed, emitted, conv>>

\* a consumeNewlines that writes a line end for each blank line it consumes
consumeNewlinesWrites ==
  /\ ParserAt({"consumeNewlines"})
  /\ CanNext
  /\ Recv
  /\ LET j == NextTok IN
       IF j.t = "itemNewline"
       THEN ParGo(NoItem, stack, write(0, NL), line, <<j>>)
       ELSE ParGo(j, Return, out, line, <<>>)
  /\ UNCHANGED <<lexVars, chanClosed, emitted, conv>>

consumeNewlines ==
  /\ ParserAt({"consumeNewlines"})
  /\ CanNext
  /\ Recv
  /\ LET j == NextTok IN
       IF j.t = "itemNewline"
       THEN ParGo(NoItem, stack, out, line, <<j>>)
       ELSE ParGo(j, Return, out, line, <<>>)
  /\ UNCHANGED <<lexVars, chanClosed, emitted, conv>>

parseNewline ==
  /\ ParserAt({"parseNewline"})
  /\ CanNext
  /\ Recv
  /\ LET nl == NextTok IN
       IF nl.t = "itemWhitespace"
       THEN ParGo(NoItem, stack, out, line, <<nl>>)
       ELSE IF nl.t # "itemNewline"
       THEN ParPanic("parser: expected newline", NoItem, <<nl>>)
       ELSE ParGo(NoItem, Return, write(0, NL), line + 1, <<nl>>)
  /\ UNCHANGED <<lexVars, chanClosed, emitted, conv>>

\* the established level of the running block once it has peeked j: the
\* width of the first whitespace item it sees, fixed from then on
BlockLevel(j) ==
  IF Top.messageLevel = 0 THEN Len(j.s) ELSE Top.messageLevel

\* a block loop that writes the closing brace at the block's established
\* level instead of the level of its header
BlockLoopBraceAtLevel(j, st) ==
  IF j.t # "itemWhitespace" \/ Len(j.s) < BlockLevel(j)
  THEN ParGo(j, Return, write(Top.messageLevel, <<"}","\n">>), line, <<>>)
  ELSE ParGo(NoItem, st, out, line, <<j>>)

\* a block loop that closes the block without writing its brace
BlockLoopNoBrace(j, st) ==
  IF j.t # "itemWhitespace" \/ Len(j.s) < BlockLevel(j)
  THEN ParGo(j, Return, out, line, <<>>)
  ELSE ParGo(NoItem, st, out, line, <<j>>)

\* a block loop that takes the peeked item out of the lookahead slot when
\* it closes the block
BlockLoopConsumes(j, st) ==
  IF j.t # "itemWhitespace" \/ Len(j.s) < BlockLevel(j)
  THEN ParGo(NoItem, Return, write(Top.lvl, <<"}","\n">>), line, <<j>>)
  ELSE ParGo(NoItem, st, out, line, <<j>>)

\* the loop shared by parseMessage, parseEnum and parseOneof, from the peek
\* to the consumption of the child line's whitespace: the block is closed
\* (its brace written, the peeked item left in the lookahead slot), or the
\* whitespace is consumed and the method goes on with call stack st
BlockLoop(j, st) ==
  IF j.t # "itemWhitespace" \/ Len(j.s) < BlockLevel(j)
  THEN ParGo(j, Return, write(Top.lvl, <<"}","\n">>), line, <<>>)
  ELSE ParGo(NoItem, st, out, line, <<j>>)

\* the running block with its established level recorded
WithLevel(m) == [stack EXCEPT ![Len(stack)].messageLevel = m]

parseMessage ==
  /\ ParserAt({"parseMessage", "parseMessageLoop"})
  /\ CanNext
  /\ Recv
  /\ LET i == NextTok IN
       IF Top.pc = "parseMessage"
       THEN IF i.t # "itemMessageType"
            THEN ParPanic("expected message type", NoItem, <<i>>)
            ELSE ParGo(NoItem,
                       Call("parseMessageLoop", Frame("parseNewline", 0)),
                       write(Top.lvl, <<"m","e","s","s","a","g","e"," ">> \o i.s \o <<" ","{">>),
                       line, <<i>>)
       ELSE IF i.t = "itemNewline"
       THEN ParGo(i, Call("parseMessageLoop", Frame("consumeNewlines", 0)),
                  out, line, <<>>)
       ELSE BlockLoop(i, Append(WithLevel(BlockLevel(i)),
                                Frame("parseMessageInner", BlockLevel(i))))
  /\ UNCHANGED <<lexVars, chanClosed, emitted, conv>>

parseMessageInner ==
  /\ ParserAt({"parseMessageInner"})
  /\ CanNext
  /\ Recv
  /\ LET i == NextTok
         lvl == Top.lvl
     IN  IF i.t = "itemCommentStart"
         THEN ParGo(NoItem, TailCall(Frame("parseNewline", 0)),
                    write(lvl, <<"/","/"," ">> \o TrimLeft(i.s)), line, <<i>>)
         ELSE IF i.t = "itemIdentifier"
         THEN ParGo(i, TailCall(Frame("parseField", lvl)), out, line, <<>>)
         ELSE IF i.t = "itemEnum"
         THEN ParGo(i, TailCall(Frame("parseEnum", lvl)), out, line, <<>>)
         ELSE IF i.t = "itemMessageType"
         THEN ParGo(i, TailCall(Frame("parseMessage", lvl)), out, line, <<>>)
         ELSE IF i.t = "itemOneof"
         THEN ParGo(i, TailCall(Frame("parseOneof", lvl)), out, line, <<>>)
         ELSE IF i.t = "itemNewline"
         THEN ParGo(i, Return, out, line, <<>>)
         ELSE ParPanic("parser: unknown message contents", i, <<>>)
  /\ UNCHANGED <<lexVars, chanClosed, emitted, conv>>

\* parseField, the remainder of the line after the declaration is written
FieldRemainder(rem) ==
  IF rem.t = "itemCommentStart"
  THEN ParGo(NoItem, TailCall(Frame("parseNewline", 0)),
             write(0, <<";"," ","/","/"," ">> \o TrimLeft(rem.s)), line, <<rem>>)
  ELSE IF rem.t = "itemNewline"
  THEN ParGo(NoItem, Return, write(0, <<";","\n">>), line + 1, <<rem>>)
  ELSE ParPanic("parser: unknown field comment", NoItem, <<rem>>)

parseField ==
  /\ ParserAt({"parseField", "parseFieldType", "parseFieldNum",
               "parseFieldRem", "parseFieldRem2"})
  /\ CanNext
  /\ Recv
  /\ LET i == NextTok
         f == Top
     IN  CASE f.pc = "parseField" ->
                IF i.t # "itemIdentifier"
                THEN ParPanic("expected identifier", NoItem, <<i>>)
                ELSE ParGo(NoItem,
                           [stack EXCEPT ![Len(stack)].pc = "parseFieldType",
                                         ![Len(stack)].ident = i],
                           out, line, <<i>>)
           [] f.pc = "parseFieldType" ->
                IF i.t # "itemFieldType"
                THEN ParPanic("parser: expected field type", NoItem, <<i>>)
                ELSE ParGo(NoItem,
                           [stack EXCEPT ![Len(stack)].pc = "parseFieldNum",
                                         ![Len(stack)].fieldType = i],
                           out, line, <<i>>)
           [] f.pc = "parseFieldNum" ->
                IF i.t # "itemFieldNum"
                THEN ParPanic("parser expected field num", NoItem, <<i>>)
                ELSE IF convertTypePanics(f.fieldType.s)
                THEN ParPanic("slice bounds out of range", NoItem, <<i>>)
                ELSE ParGo(NoItem,
                           [stack EXCEPT ![Len(stack)].pc = "parseFieldRem",
                                         ![Len(stack)].fieldNum = i],
                           write(f.lvl, convertType(f.fieldType.s) \o <<" ">>
                                          \o f.ident.s \o <<" ","="," ">> \o i.s),
                           line, <<i>>)
           [] f.pc = "parseFieldRem" /\ i.t = "itemFieldOption" ->
                ParGo(NoItem, Goto("parseFieldRem2"),
                      write(0, <<" ","[">> \o i.s \o <<"]">>), line, <<i>>)
           [] OTHER -> FieldRemainder(i)
  /\ UNCHANGED <<lexVars, chanClosed, emitted, conv>>

parseEnum ==
  /\ ParserAt({"parseEnum", "parseEnumLoop", "parseEnumItem", "parseEnumNum",
               "parseEnumTail"})
  /\ CanNext
  /\ Recv
  /\ LET j == NextTok
         f == Top
     IN  CASE f.pc = "parseEnum" ->
                IF j.t # "itemEnum"
                THEN ParPanic("expected enum type", NoItem, <<j>>)
                ELSE ParGo(NoItem,
                           Call("parseEnumLoop", Frame("parseNewline", 0)),
                           write(f.lvl, <<"e","n","u","m"," ">> \o j.s \o <<" ","{">>),
                           line, <<j>>)
           [] f.pc = "parseEnumLoop" ->
                IF j.t = "itemNewline"
                THEN ParGo(NoItem, stack, out, line, <<j>>)
                ELSE BlockLoop(j, [WithLevel(BlockLevel(j))
                                     EXCEPT ![Len(stack)].pc = "parseEnumItem"])
           [] f.pc = "parseEnumItem" ->
                IF j.t = "itemIdentifier"
                THEN ParGo(NoItem,
                           [stack EXCEPT ![Len(stack)].pc = "parseEnumNum",
                                         ![Len(stack)].ident = j],
                           out, line, <<j>>)
                ELSE IF j.t = "itemCommentStart"
                THEN IF Len(j.s) < 2
                     THEN ParPanic("slice bounds out of range", NoItem, <<j>>)
                     ELSE ParGo(NoItem, Goto("parseEnumTail"),
                                write(f.messageLevel,
                                      <<"/","/"," ">> \o SubSeq(j.s, 3, Len(j.s))),
                                line, <<j>>)
                ELSE ParGo(NoItem, Goto("parseEnumTail"), out, line, <<j>>)
           [] f.pc = "parseEnumNum" ->
                IF j.t # "itemFieldNum"
                THEN ParPanic("expected field num", NoItem, <<j>>)
                ELSE ParGo(NoItem, Goto("parseEnumTail"),
                           write(f.messageLevel,
                                 f.ident.s \o <<" ","="," ">> \o j.s \o <<";">>),
                           line, <<j>>)
           [] OTHER ->
                IF j.t = "itemCommentStart"
                THEN ParGo(NoItem,
                           Call("parseEnumLoop", Frame("parseNewline", 0)),
                           write(0, <<" ","/","/"," ">> \o j.s), line, <<j>>)
                ELSE ParGo(j, Call("parseEnumLoop", Frame("parseNewline", 0)),
                           out, line, <<>>)
  /\ UNCHANGED <<lexVars, chanClosed, emitted, conv>>

parseOneof ==
  /\ ParserAt({"parseOneof", "parseOneofLoop"})
  /\ CanNext
  /\ Recv
  /\ LET j == NextTok
         f == Top
     IN  IF f.pc = "parseOneof"
         THEN IF j.t # "itemOneof"
              THEN ParPanic("expected oneof type", NoItem, <<j>>)
              ELSE ParGo(NoItem,
                         Call("parseOneofLoop", Frame("parseNewline", 0)),
                         write(f.lvl, <<"o","n","e","o","f"," ">> \o j.s \o <<" ","{">>),
                         line, <<j>>)
         ELSE IF j.t = "itemNewline"
         THEN ParGo(NoItem, stack, out, line, <<j>>)
         ELSE BlockLoop(j, Append(WithLevel(BlockLevel(j)),
                                  Frame("parseField", BlockLevel(j))))
  /\ UNCHANGED <<lexVars, chanClosed, emitted, conv>>

\* main: p.parse() has returned, main returns and the process exits
main ==
  /\ proc = "running"
  /\ stack = <<>>
  /\ proc' = "exited"
  /\ UNCHANGED <<lexVars, sending, buf, chanClosed, emitted, parVars, fault,
                 conv>>

(* --------------------------- specification ---------------------------- *)

ConvIdle == [st |-> "idle", arg |-> <<>>, res |-> <<>>]

\* main: the lexer is started on scanText, the parser on parse
Init ==
  /\ lines = <<>>
  /\ eof = FALSE
  /\ col = 1
  /\ lstate = "scanText"
  /\ sending = NoItem
  /\ buf = <<>>
  /\ chanClosed = FALSE
  /\ emitted = <<>>
  /\ head = NoItem
  /\ stack = <<Frame("parse", 0)>>
  /\ out = <<>>
  /\ line = 0
  /\ consumed = <<>>
  /\ proc = "running"
  /\ fault = ""
  /\ conv = ConvIdle

Next ==
  \/ Feed
  \/ scanText
  \/ scanComment
  \/ scanIndent
  \/ scanFileOption
  \/ scanField
  \/ scanFieldType
  \/ scanFieldNum
  \/ scanFieldEnd
  \/ scanFieldOptions
  \/ scanEnd
  \/ lex
  \/ parse
  \/ parseOption
  \/ consumeNewlines
  \/ parseNewline
  \/ parseMessage
  \/ parseMessageInner
  \/ parseField
  \/ parseEnum
  \/ parseOneof
  \/ main

Spec == Init /\ [][Next]_vars

\* convertType called on its own, on every field type lexeme
convertCall ==
  /\ conv.st = "call"
  /\ conv' = IF convertTypePanics(conv.arg)
             THEN [conv EXCEPT !.st = "panicked"]
             ELSE [conv EXCEPT !.st = "returned", !.res = convertType(conv.arg)]
  /\ UNCHANGED <<lexVars, sending, buf, chanClosed, emitted, parVars,
                 procVars>>

InitConv ==
  /\ lines = <<>>
  /\ eof = FALSE
  /\ col = 1
  /\ lstate = "scanText"
  /\ sending = NoItem
  /\ buf = <<>>
  /\ chanClosed = FALSE
  /\ emitted = <<>>
  /\ head = NoItem
  /\ stack = <<Frame("parse", 0)>>
  /\ out = <<>>
  /\ line = 0
  /\ consumed = <<>>
  /\ proc = "running"
  /\ fault = ""
  /\ conv \in { [st |-> "call", arg |-> t, res |-> <<>>] : t \in TypeLexemes }

SpecConv == InitConv /\ [][convertCall]_vars

(* ------------------- src/main.go: the parser goroutine ------------------ *)

\* src/main.go differs from part_000 in main, in readAlphanum, scanField and
\* in its parser, which receives every item straight from the channel.
\* Its definitions carry the prefix mainGo_; the scan functions that are
\* the same in both files are shared.

mainGo_AlphanumRunes == Letters \cup Digits \cup {"_"}

mainGo_readAlphanum(ln, c) == readFunc(ln, c, mainGo_AlphanumRunes)

\* scanIndent after the leading whitespace: position c
mainGo_scanIndentRest(c) ==
  LET x == mainGo_readAlphanum(Cur, c)
      y == mainGo_readAlphanum(Cur, x.col)
  IN  IF read(Cur, c) = "#" THEN LexGo(c, "scanEnd")
      ELSE IF x.s = <<"o","p","t","i","o","n">> THEN LexGo(x.col, "scanFileOption")
      ELSE IF x.s = <<"m","s","g">>
      THEN LexEmit(y.col, "scanEnd", Item("itemMessageType", y.s))
      ELSE IF x.s = <<"p","a","c","k","a","g","e">>
      THEN LexEmit(y.col, "scanEnd", Item("itemPackage", y.s))
      ELSE IF x.s = <<"e","n","u","m">>
      THEN LexEmit(y.col, "scanEnd", Item("itemEnum", y.s))
      ELSE IF x.s = <<"o","n","e","o","f">>
      THEN LexEmit(y.col, "scanEnd", Item("itemOneof", y.s))
      ELSE LexEmit(readWhitespace(Cur, x.col).col, "scanField",
                   Item("itemIdentifier", x.s))

mainGo_scanIndent ==
  /\ LexerAt({"scanIndent", "scanIndent2"})
  /\ LET ws == readWhitespace(Cur, col) IN
       IF lstate = "scanIndent" /\ Len(ws.s) > 0
       THEN LexEmit(ws.col, "scanIndent2", Item("itemWhitespace", ws.s))
       ELSE mainGo_scanIndentRest(col)
  /\ UNCHANGED <<parVars, conv>>

\* scanField: a digit read here is not put back
mainGo_scanField ==
  /\ LexerAt({"scanField"})
  /\ IF isNumber(read(Cur, col))
     THEN LexGo(readWhitespace(Cur, col + 1).col, "scanFieldNum")
     ELSE LexGo(col, "scanFieldType")
  /\ UNCHANGED <<parVars, conv>>

\* a range over the channel ends: it is closed and holds no item
mainGo_Drained == buf = <<>> /\ sending = NoItem /\ chanClosed

\* the parser goroutine is at pc and its receive can proceed
mainGo_ParserAt(pcs) ==
  /\ ParserAt(pcs)
  /\ ChanReady
  /\ ChanRecv

\* toplevel parse: one iteration of for i := range p.c; when the range
\* ends parse writes the last line end and returns, and the range over
\* l.c that follows it in the goroutine finds the channel closed
mainGo_parse ==
  /\ mainGo_ParserAt({"mainGo_parse", "mainGo_parseOption"})
  /\ LET i == ChanTok
         f == Top
     IN  IF f.pc = "mainGo_parseOption"
         THEN IF i.t # "itemOptionName"
              THEN ParPanic("parser: expected option value", NoItem, <<i>>)
              ELSE ParGo(NoItem,
                         [stack EXCEPT ![Len(stack)].pc = "mainGo_parse",
                                       ![Len(stack)].ident = NoItem],
                         write(0, <<"o","p","t","i","o","n"," ">> \o f.ident.s \o <<" ","="," ">>
                                    \o i.s \o <<";">>),
                         line, <<i>>)
         ELSE IF mainGo_Drained
         THEN ParGo(NoItem, Return, write(0, NL), line, <<>>)
         ELSE IF i.t = "itemNewline"
         THEN ParGo(NoItem, stack, write(0, NL), line + 1, <<i>>)
         ELSE IF i.t = "itemWhitespace"
         THEN ParPanic("should not have whitespace", NoItem, <<i>>)
         ELSE IF i.t = "itemPackage"
         THEN ParGo(NoItem, stack, write(0, <<"p","a","c","k","a","g","e"," ">> \o i.s), line, <<i>>)
         ELSE IF i.t = "itemOption"
         THEN ParGo(NoItem,
                    [stack EXCEPT ![Len(stack)].pc = "mainGo_parseOption",
                                  ![Len(stack)].ident = i],
                    out, line, <<i>>)
         ELSE IF i.t = "itemMessageType"
         THEN ParGo(NoItem,
                    Call("mainGo_parse", Frame("mainGo_parseMessage", 0)),
                    write(0, <<"m","e","s","s","a","g","e"," ">> \o i.s \o <<" ","{","\n">>), line, <<i>>)
         ELSE ParGo(NoItem, stack, out, line, <<i>>)
  /\ UNCHANGED <<lexVars, chanClosed, emitted, conv>>

\* parseMessage: one iteration of for j := range c
mainGo_parseMessage ==
  /\ mainGo_ParserAt({"mainGo_parseMessage"})
  /\ LET j == ChanTok
         lvl == Top.lvl
     IN  IF mainGo_Drained
         THEN ParGo(NoItem, Return, write(lvl, <<"}">>), line, <<>>)
         ELSE IF Len(j.s) < lvl
         THEN ParGo(NoItem, Return, write(lvl, <<"}">>), line, <<j>>)
         ELSE IF Len(j.s) > lvl
         THEN ParGo(NoItem,
                    Call("mainGo_parseMessage",
                         Frame("mainGo_parseMessageInner", Len(j.s))),
                    out, line, <<j>>)
         ELSE ParGo(NoItem, stack, out, line, <<j>>)
  /\ UNCHANGED <<lexVars, chanClosed, emitted, conv>>

\* parseMessageInner, one receive per step
mainGo_parseMessageInner ==
  /\ mainGo_ParserAt({"mainGo_parseMessageInner", "mainGo_fieldType",
                      "mainGo_fieldNum", "mainGo_rem", "mainGo_rem2"})
  /\ LET i == ChanTok
         f == Top
     IN  CASE f.pc = "mainGo_parseMessageInner" ->
                IF i.t = "itemCommentStart"
                THEN ParGo(NoItem, TailCall(Frame("mainGo_parseNewline", 0)),
                           write(f.lvl, <<"/","/"," ">> \o TrimLeft(i.s)), line, <<i>>)
                ELSE IF i.t = "itemIdentifier"
                THEN ParGo(NoItem,
                           [stack EXCEPT ![Len(stack)].pc = "mainGo_fieldType",
                                         ![Len(stack)].ident = i],
                           out, line, <<i>>)
                ELSE IF i.t = "itemEnum"
                THEN ParPanic("enum not implemented", NoItem, <<i>>)
                ELSE IF i.t = "itemMessageType"
                THEN ParPanic("nested message not handled", NoItem, <<i>>)
                ELSE IF i.t = "itemOneof"
                THEN ParPanic("oneof not handled", NoItem, <<i>>)
                ELSE IF i.t = "itemNewline"
                THEN ParGo(NoItem, Return, out, line, <<i>>)
                ELSE ParPanic("parser: unknown message contents", NoItem, <<i>>)
           [] f.pc = "mainGo_fieldType" ->
                IF i.t # "itemFieldType"
                THEN ParPanic("parser: expected field type", NoItem, <<i>>)
                ELSE ParGo(NoItem,
                           [stack EXCEPT ![Len(stack)].pc = "mainGo_fieldNum",
                                         ![Len(stack)].fieldType = i],
                           out, line, <<i>>)
           [] f.pc = "mainGo_fieldNum" ->
                IF i.t # "itemFieldNum"
                THEN ParPanic("parser expected field num", NoItem, <<i>>)
                ELSE ParGo(NoItem,
                           [stack EXCEPT ![Len(stack)].pc = "mainGo_rem",
                                         ![Len(stack)].fieldNum = i],
                           write(f.lvl, f.fieldType.s \o <<" ">> \o f.ident.s
                                          \o <<" ","="," ">> \o i.s),
                           line, <<i>>)
           [] f.pc = "mainGo_rem" /\ i.t = "itemFieldOption" ->
                ParGo(NoItem, Goto("mainGo_rem2"),
                      write(0, <<" ","[">> \o i.s \o <<"]">>), line, <<i>>)
           [] OTHER ->
                IF i.t = "itemCommentStart"
                THEN ParGo(NoItem, TailCall(Frame("mainGo_parseNewline", 0)),
                           write(0, <<";"," ","/","/"," ">> \o TrimLeft(i.s)), line, <<i>>)
                ELSE IF i.t = "itemNewline"
                THEN ParGo(NoItem, Return, write(0, <<";","\n">>), line + 1, <<i>>)
                ELSE ParPanic("parser: unknown field comment", NoItem, <<i>>)
  /\ UNCHANGED <<lexVars, chanClosed, emitted, conv>>

mainGo_parseNewline ==
  /\ mainGo_ParserAt({"mainGo_parseNewline"})
  /\ LET nl == ChanTok IN
       IF nl.t = "itemWhitespace"
       THEN ParGo(NoItem, stack, out, line, <<nl>>)
       ELSE IF nl.t # "itemNewline"
       THEN ParPanic("parser: expected newline", NoItem, <<nl>>)
       ELSE ParGo(NoItem, Return, write(0, NL), line + 1, <<nl>>)
  /\ UNCHANGED <<lexVars, chanClosed, emitted, conv>>

\* main: l.lex() has returned and time.Sleep(time.Second) has elapsed; main
\* returns and the process exits, whatever the parser goroutine is doing
mainGo_main ==
  /\ proc = "running"
  /\ lstate = "done"
  /\ proc' = "exited"
  /\ UNCHANGED <<lexVars, sending, buf, chanClosed, emitted, parVars, fault,
                 conv>>

\* main: the parser goroutine is started on parse, the lexer runs in main
mainGo_Init ==
  /\ lines = <<>>
  /\ eof = FALSE
  /\ col = 1
  /\ lstate = "scanText"
  /\ sending = NoItem
  /\ buf = <<>>
  /\ chanClosed = FALSE
  /\ emitted = <<>>
  /\ head = NoItem
  /\ stack = <<Frame("mainGo_parse", 0)>>
  /\ out = <<>>
  /\ line = 0
  /\ consumed = <<>>
  /\ proc = "running"
  /\ fault = ""
  /\ conv = ConvIdle

mainGo_Next ==
  \/ Feed
  \/ scanText
  \/ scanComment
  \/ mainGo_scanIndent
  \/ scanFileOption
  \/ mainGo_scanField
  \/ scanFieldType
  \/ scanFieldNum
  \/ scanFieldEnd
  \/ scanFieldOptions
  \/ scanEnd
  \/ lex
  \/ mainGo_parse
  \/ mainGo_parseMessage
  \/ mainGo_parseMessageInner
  \/ mainGo_parseNewline
  \/ mainGo_main

SpecMainGo == mainGo_Init /\ [][mainGo_Next]_vars

(* ------------------------------ claims -------------------------------- *)

\* s begins with p
IsPrefix(p, s) == Len(p) <= Len(s) /\ SubSeq(s, 1, Len(p)) = p

\* the whole output text
OutText == Flatten(out)

\* the closing brace line a block at argument lvl writes
Brace(lvl) == Repeat(indentSpace, lvl) \o <<"}","\n">>

ExpectedRoundTrip ==
  <<"p","a","c","k","a","g","e"," ","e","x","a","m","p","l","e",";","\n","m","e","s","s","a","g","e"," ","M","y","M","e","s","s","a","g","e"," ","{","\n"," "," ","o","p","t","i","o","n","a","l"," ","s","t","r","i","n","g"," ","f","o","o"," ","="," ","1",";","\n"," "," ","r","e","p","e","a","t","e","d"," ","i","n","t"," ","b","a","r"," ","="," ","3",";","\n","}","\n">>

\* C1: for the four-line round-trip input, the complete output once the
\* process has exited is exactly the five expected lines, the two field
\* lines indented by two spaces and the closing brace at column 0.
C1_RoundTrip ==
  (lines = RoundTripDoc /\ eof /\ proc = "exited") => OutText = ExpectedRoundTrip

\* C2: a line narrower than the established level of a block closes that
\* block, so no line narrower than an open block's established level is
\* ever processed inside it: the established levels of the open blocks
\* never decrease from the outermost block to the innermost.
C2_ShallowerLineClosesBlock ==
  \A i, k \in DOMAIN stack :
    (i < k /\ stack[i].messageLevel > 0 /\ stack[k].messageLevel > 0)
      => stack[k].messageLevel >= stack[i].messageLevel

\* a message block nested in a message block is running its loop
NestedMessage ==
  /\ Len(stack) >= 3
  /\ Top.pc = "parseMessageLoop"
  /\ stack[Len(stack) - 1].pc = "parseMessageLoop"

\* a message block has just had a nested block close and peeks the next
\* line, which is at least as wide as its own established level
SiblingAfterNested ==
  /\ stack # <<>>
  /\ Top.pc = "parseMessageLoop"
  /\ Top.messageLevel > 0
  /\ out # <<>>
  /\ Last(out) = Brace(Top.messageLevel)
  /\ head.t = "itemWhitespace"
  /\ Len(head.s) >= Top.messageLevel

C4_NoEmptyTag ==
  \A k \in DOMAIN stack :
    stack[k].pc \in {"parseFieldRem", "parseFieldRem2"}
      => stack[k].fieldNum.s # <<>>

\* the top-level loop of parse is at its head
AtTopLoop == proc = "running" /\ Len(stack) = 1 /\ Top.pc = "parse"

\* C5: every iteration of the top-level loop consumes at least one item or
\* terminates: a step that leaves parse at the head of its loop has
\* consumed an item.
C5_TopLoopProgress ==
  [][(AtTopLoop /\ AtTopLoop' /\ parVars' # parVars)
       => Len(consumed') > Len(consumed)]_vars

\* the items the parser has received from the channel: those it has
\* consumed and the one waiting in its lookahead slot
TokensReceived ==
  Len(consumed) + (IF head.t \in {"none", "itemUnknown"} THEN 0 ELSE 1)

\* the emits that have completed: all but the one the lexer is blocked in
EmitsCompleted == Len(emitted) - (IF sending # NoItem THEN 1 ELSE 0)

\* C6: the emits that have completed are exactly the items the translator
\* has received; no item waits in the channel other than the one the
\* tokenizer is blocked sending, so the tokenizer is at most one item ahead.
C6_Rendezvous ==
  /\ buf = <<>>
  /\ EmitsCompleted = TokensReceived
  /\ Len(emitted) - TokensReceived \in {0, 1}

\* C6 witness: the tokenizer is blocked in an emit while the translator
\* still holds the item before it in its lookahead slot
C6_Witness ==
  /\ sending # NoItem
  /\ head # NoItem
  /\ Len(emitted) = TokensReceived + 1
  /\ Len(consumed) >= 2

\* C7: the items the translator has consumed, in the order it consumed
\* them, are a prefix of the items the tokenizer has emitted.
C7_InOrderConsumption == IsPrefix(consumed, emitted)

\* the alias table of the specification: str is string, any other name
\* is itself
toBuiltin(n) == IF n = <<"s","t","r">> THEN <<"s","t","r","i","n","g">> ELSE n

\* t has the form map[K]V
HasMapForm(t) == IsPrefix(<<"m","a","p","[">>, t) /\ \E k \in 5..Len(t) : t[k] = "]"

\* the conversion the specification states, with K up to the first "]"
ClaimedConversion(t) ==
  IF HasMapForm(t)
  THEN LET k == CHOOSE k \in 5..Len(t) :
                  t[k] = "]" /\ \A m \in 5..(k - 1) : t[m] # "]"
       IN  <<"m","a","p","<">> \o toBuiltin(SubSeq(t, 5, k - 1)) \o <<","," ">>
             \o toBuiltin(SubSeq(t, k + 1, Len(t))) \o <<">">>
  ELSE IF IsPrefix(<<"[","]">>, t)
  THEN <<"r","e","p","e","a","t","e","d"," ">> \o toBuiltin(SubSeq(t, 3, Len(t)))
  ELSE <<"o","p","t","i","o","n","a","l"," ">> \o toBuiltin(t)

\* C8: for every field type lexeme, convertType returns the conversion the
\* specification states (map<K, V>, repeated T, or optional T otherwise).
C8_TypeConversion ==
  conv.st \in {"returned", "panicked"}
    => conv.st = "returned" /\ conv.res = ClaimedConversion(conv.arg)

\* a comment lexeme without its leading "#" and one following space
StripHashSpace(s) ==
  LET a == IF s # <<>> /\ Head(s) = "#" THEN Tail(s) ELSE s
  IN  IF a # <<>> /\ Head(a) = " " THEN Tail(a) ELSE a

\* the translator is inside the top-level message block
InBlock == Len(stack) >= 2 /\ stack[2].pc = "parseMessageLoop"

\* C9: once the translator has taken the comment item of a comment line
\* that is a child of a block, the chunk it has written is the indentation
\* and "// " followed by the lexeme less its leading "#" and exactly one
\* following space.
C9_CommentLine ==
  LET n == Len(consumed) IN
    (/\ InBlock
     /\ n >= 2
     /\ consumed[n].t = "itemCommentStart"
     /\ consumed[n - 1].t = "itemWhitespace")
      => /\ proc = "running"
         /\ out # <<>>
         /\ \E k \in 0..Len(Last(out)) :
              Last(out) = Repeat(<<" ">>, k) \o <<"/","/"," ">>
                            \o StripHashSpace(consumed[n].s)

NonSpace == Runes \ (SpaceTab \cup {"\n", NUL})

Keywords == { <<"o","p","t","i","o","n">>, <<"m","s","g">>, <<"p","a","c","k","a","g","e">>, <<"e","n","u","m">>, <<"o","n","e","o","f">> }

\* the fields of an input line read as <name> <type> <tag> [<opt>]: runs of
\* non-blank runes separated by blanks, then the bracketed text
LineFields(ln) ==
  LET n0 == RunEnd(ln, 1, SpaceTab)
      n1 == RunEnd(ln, n0, NonSpace)
      t0 == RunEnd(ln, n1, SpaceTab)
      t1 == RunEnd(ln, t0, NonSpace)
      g0 == RunEnd(ln, t1, SpaceTab)
      g1 == RunEnd(ln, g0, Digits)
      b0 == RunEnd(ln, g1, SpaceTab)
      b1 == RunEnd(ln, b0 + 1, Runes \ {"]", "\n"})
      e  == RunEnd(ln, b1 + 1, SpaceTab)
  IN  [name |-> SubSeq(ln, n0, n1 - 1),
       type |-> SubSeq(ln, t0, t1 - 1),
       tag |-> SubSeq(ln, g0, g1 - 1),
       open |-> read(ln, b0),
       opt |-> SubSeq(ln, b0 + 1, b1 - 1),
       close |-> read(ln, b1),
       rest |-> read(ln, e),
       blankAfterTag |-> b0 > g1]

\* ln is a field line <name> <type> <tag> [<opt>] closed on the line
IsOptionFieldLine(ln) ==
  LET f == LineFields(ln) IN
    /\ f.name # <<>>
    /\ f.name \notin Keywords
    /\ \A k \in DOMAIN f.name : f.name[k] \in AlphanumRunes
    /\ f.type # <<>>
    /\ ~isNumber(f.type[1])
    /\ \A k \in DOMAIN f.type : f.type[k] \in FieldTypeRunes
    /\ ~(IsPrefix(<<"m","a","p","[">>, f.type) /\ ~HasMapForm(f.type))
    /\ f.tag # <<>>
    /\ f.blankAfterTag
    /\ f.open = "["
    /\ f.close = "]"
    /\ f.rest = "\n"

\* a chunk written for a bracketed field option
IsOptChunk(c) == IsPrefix(<<" ","[">>, c)

\* C10: for a field line <name> <type> <tag> [<opt>], once the translator
\* has written the option, the line written so far is
\* <converted-type> <name> = <tag> followed by " [<opt>]" with <opt> the
\* very text between the brackets; and what follows a written option
\* always starts with the terminating ";".
C10_FieldOptionVerbatim ==
  /\ (/\ stack # <<>>
      /\ Top.pc = "parseFieldRem2"
      /\ IsOptionFieldLine(Cur))
       => LET f == LineFields(Cur) IN
            /\ Len(out) >= 2
            /\ out[Len(out) - 1] =
                 Repeat(indentSpace, Top.lvl) \o convertType(f.type) \o <<" ">>
                   \o f.name \o <<" ","="," ">> \o f.tag
            /\ Last(out) = <<" ","[">> \o f.opt \o <<"]">>
  /\ \A k \in 1..(Len(out) - 1) :
       IsOptChunk(out[k]) => IsPrefix(<<";">>, out[k + 1])

\* C10 witness: the whole line of a field whose option holds a blank and a
\* "#" has been written
C10_Witness ==
  /\ Len(lines) = 2
  /\ lines[2] = <<" "," ","b"," ","i","n","t"," ","2"," ","["," ","#","]","\n">>
  /\ Len(out) >= 3
  /\ out[Len(out) - 2] = Repeat(indentSpace, 2) \o <<"o","p","t","i","o","n","a","l"," ","i","n","t"," ","b"," ","="," ","2">>
  /\ out[Len(out) - 1] = <<" ","["," ","#","]">>
  /\ Last(out) = <<";","\n">>

\* C11: whenever the tokenizer reads a quoted option value or a bracketed
\* field option that has no closing delimiter before the input ends, the
\* process has aborted: the tokenizer is never left in a read loop that
\* cannot end.
C11_UnterminatedAborts == lstate = "spin" => proc = "panicked"

\* C12: the tokenizer has closed the item stream only when it has reached
\* the end of the input, with no unread rune left.
C12_ClosedOnlyAtEnd == chanClosed => (eof /\ AtEnd)

\* the positions in which a block method runs its loop
BlockLoopPcs ==
  {"parseMessageLoop", "parseEnumLoop", "parseEnumItem", "parseEnumNum",
   "parseEnumTail", "parseOneofLoop"}

\* C13: every block that has taken a child line has an established level
\* greater than the established level of the scope that encloses it: a line
\* at or below the enclosing level is never a child of the block.
C13_ChildDeeperThanEnclosing ==
  \A k \in DOMAIN stack :
    (stack[k].pc \in BlockLoopPcs /\ stack[k].messageLevel > 0)
      => stack[k].messageLevel > stack[k].lvl

\* the items the translator has received and not yet consumed
HeldTokens == EmitsCompleted - Len(consumed)

\* C14: the translator holds at most one item received and not consumed; a
\* peek made while the lookahead slot is full returns the item in the slot
\* and receives nothing; and the step that empties the slot consumes
\* exactly the item that was in it.
C14_SingleLookahead ==
  /\ [](HeldTokens \in {0, 1})
  /\ [][ /\ (head # NoItem /\ head' # NoItem /\ parVars' # parVars)
              => /\ head' = head
                 /\ sending' = sending /\ buf' = buf
                 /\ consumed' = consumed
         /\ (head # NoItem /\ head.t # "itemUnknown" /\ head' = NoItem)
              => /\ consumed' # <<>>
                 /\ Last(consumed') = head
                 /\ Len(consumed') > Len(consumed) ]_vars

\* C14 witness: the top-level loop is about to peek again the item that a
\* block peeked when it closed, while the tokenizer waits with the next one
C14_Witness ==
  /\ proc = "running"
  /\ Len(stack) = 1
  /\ Top.pc = "parse"
  /\ head.t = "itemPackage"
  /\ sending # NoItem
  /\ HeldTokens = 1
  /\ out # <<>>
  /\ Last(out) = Brace(0)

\* the positions in which a block method peeks the next child line
BlockPeekPcs == {"parseMessageLoop", "parseEnumLoop", "parseOneofLoop"}

\* the translator is at the peek of a block's loop
AtBlockPeek == proc = "running" /\ stack # <<>> /\ Top.pc \in BlockPeekPcs

\* the item peeked ends the running block
PeekedEndsBlock ==
  /\ NextTok.t # "itemNewline"
  /\ \/ NextTok.t # "itemWhitespace"
     \/ (Top.messageLevel > 0 /\ Len(NextTok.s) < Top.messageLevel)

\* C15: a block closes exactly when the item it peeks is not whitespace or
\* is whitespace narrower than its established level; the closing step
\* writes the closing brace and nothing else, consumes nothing and leaves
\* the peeked item in the lookahead slot for the enclosing method.
C15_CloseLeavesLookahead ==
  [][ /\ (AtBlockPeek /\ Len(stack') < Len(stack))
        => /\ PeekedEndsBlock
           /\ out' = Append(out, Brace(Top.lvl))
           /\ stack' = Front(stack)
           /\ head' = NextTok
           /\ consumed' = consumed
      /\ (AtBlockPeek /\ parVars' # parVars /\ PeekedEndsBlock)
        => /\ stack' = Front(stack)
           /\ head' = NextTok ]_vars

\* C15 witness: one top-level line has closed a nested block and then its
\* parent, innermost first, and is still in the lookahead slot
C15_Witness ==
  /\ Len(lines) = 4
  /\ lines[2] = <<" "," ","m","s","g"," ","B","\n">>
  /\ lines[4] = <<"p","a","c","k","a","g","e"," ","e","x","a","m","p","l","e","\n">>
  /\ Len(stack) = 1
  /\ head = Item("itemPackage", <<"e","x","a","m","p","l","e">>)
  /\ Len(out) >= 2
  /\ out[Len(out) - 1] = Brace(2)
  /\ Last(out) = Brace(0)
  /\ Last(consumed).t = "itemNewline"

\* the block frames of a call stack
BlockFrames(st) == SelectSeq(st, LAMBDA f : f.pc \in BlockLoopPcs)

\* C16: a step that takes or skips a blank-line item peeked inside a block
\* writes nothing and leaves every open block and its established level as
\* they were; the block is not closed.
C16_BlankLinesKeepBlock ==
  [][ (/\ proc = "running"
       /\ stack # <<>>
       /\ Top.pc \in BlockPeekPcs \cup {"consumeNewlines"}
       /\ CanNext
       /\ NextTok.t = "itemNewline"
       /\ parVars' # parVars)
        => /\ out' = out
           /\ BlockFrames(stack') = BlockFrames(stack)
           /\ consumed' \in {consumed, Append(consumed, NextTok)} ]_vars

\* C16 witness: a field line, a blank line and a second field line have
\* been written as two fields of the same open message block
C16_Witness ==
  /\ Len(lines) = 4
  /\ lines[1] = <<"m","s","g"," ","M","y","M","e","s","s","a","g","e","\n">>
  /\ lines[2] = <<" "," ","f","o","o"," ","s","t","r"," ","1","\n">>
  /\ lines[3] = <<"\n">>
  /\ lines[4] = <<" "," ","f","o","o"," ","s","t","r"," ","1","\n">>
  /\ Len(stack) = 2
  /\ Top.pc = "parseMessageLoop"
  /\ Top.messageLevel = 2
  /\ Len(out) = 6
  /\ out[3] = Repeat(indentSpace, 2) \o <<"o","p","t","i","o","n","a","l"," ","s","t","r","i","n","g"," ","f","o","o"," ","="," ","1">>
  /\ out[5] = out[3]
  /\ Last(out) = <<";","\n">>

\* C17: whenever the translator has gone past the first item of an enum
\* child line without aborting, that line is <identifier> <tag> or a
\* comment: the item it last consumed is the tag or the comment.
C17_EnumChildShape ==
  (proc = "running" /\ stack # <<>> /\ Top.pc = "parseEnumTail")
    => Last(consumed).t \in {"itemFieldNum", "itemCommentStart"}

\* the innermost open block is a oneof block
InOneof ==
  /\ BlockFrames(stack) # <<>>
  /\ Last(BlockFrames(stack)).pc = "parseOneofLoop"

\* C18: once the translator has taken the comment item of a comment line
\* that is a child of a oneof block, it is still running and the chunk it
\* has written is the indentation and "// " followed by the comment text.
C18_OneofComment ==
  LET n == Len(consumed) IN
    (/\ InOneof
     /\ n >= 2
     /\ consumed[n].t = "itemCommentStart"
     /\ consumed[n - 1].t = "itemWhitespace")
      => /\ proc = "running"
         /\ out # <<>>
         /\ \E k \in 0..Len(Last(out)) :
              Last(out) = Repeat(<<" ">>, k) \o <<"/","/"," ">> \o TrimLeft(consumed[n].s)

\* the number of blanks a written chunk starts with
Indent(c) == RunEnd(c, 1, {" "}) - 1

\* a written chunk that opens a block: message|enum|oneof <name> {
IsOpenChunk(c) ==
  /\ Len(c) >= 2
  /\ SubSeq(c, Len(c) - 1, Len(c)) = <<" ","{">>
  /\ \E kw \in { <<"m","e","s","s","a","g","e"," ">>, <<"e","n","u","m"," ">>, <<"o","n","e","o","f"," ">> } :
       IsPrefix(kw, SubSeq(c, Indent(c) + 1, Len(c)))

\* a written chunk that closes a block
IsCloseChunk(c) == c = Repeat(<<" ">>, Indent(c)) \o <<"}","\n">>

Unbalanced == <<-1>>

\* the indentations of the blocks opened and not yet closed in the output
\* o, innermost last; Unbalanced once a closing brace matches no open block
\* at its indentation
RECURSIVE OpenBlocks(_)
OpenBlocks(o) ==
  IF o = <<>> THEN <<>>
  ELSE LET prev == OpenBlocks(Front(o))
           c == Last(o)
       IN  IF prev = Unbalanced THEN Unbalanced
           ELSE IF IsOpenChunk(c) THEN Append(prev, Indent(c))
           ELSE IF IsCloseChunk(c)
           THEN IF prev # <<>> /\ Last(prev) = Indent(c)
                THEN Front(prev) ELSE Unbalanced
           ELSE prev

\* C19: every closing brace written closes the innermost open block and
\* stands at the indentation of that block's opening line, so closing
\* braces never outnumber opening lines; once the translator has returned
\* no block is left open.
C19_BraceBalance ==
  /\ OpenBlocks(out) # Unbalanced
  /\ stack = <<>> => OpenBlocks(out) = <<>>

\* C19 witness: the translator has returned after writing a message with a
\* nested block, both closed
C19_Witness ==
  /\ stack = <<>>
  /\ proc = "exited"
  /\ Len(out) >= 6
  /\ out[Len(out) - 1] = Brace(2)
  /\ Last(out) = Brace(0)
  /\ \E k \in DOMAIN out : IsOpenChunk(out[k]) /\ Indent(out[k]) = 4

\* C20: no emitted item has the zero kind, the lookahead slot holds the
\* zero item only after the tokenizer has closed the stream, and the
\* translator has returned only after the stream was closed with no item
\* left to deliver.
C20_NoFalseEndOfStream ==
  /\ \A k \in DOMAIN emitted : emitted[k].t # "itemUnknown"
  /\ head.t = "itemUnknown" => chanClosed
  /\ stack = <<>>
       => (chanClosed /\ sending = NoItem /\ Len(consumed) = Len(emitted))

\* C20 witness: the translator has returned at the end of a stream of
\* several items, all of them consumed
C20_Witness ==
  /\ stack = <<>>
  /\ chanClosed
  /\ Len(emitted) >= 6
  /\ Len(consumed) = Len(emitted)
  /\ head = ZeroItem

\* C22: convertType returns on every field type lexeme; no call of it ends
\* in a runtime fault.
C22_ConvertTotal == conv.st \in {"idle", "call", "returned"}

\* the translator has returned: it has seen the end of the stream and has
\* written the output of every item it received
TranslatorDone == stack = <<>>

\* C21: the process has exited only when the translator has returned.
C21_ExitAfterCompletion == proc = "exited" => TranslatorDone

====
